---------------------------- MODULE Spec2Model ----------------------------
(***************************************************************************)
(* The command-record pipeline of fz-cmd: merge_commands (priority         *)
(* deduplication), limit_commands (per-source quota), format_for_fzf       *)
(* (tab-separated lines, recency ordering) and recent_tracker (the         *)
(* persisted recency list), with the YAML source adapters that feed it.    *)
(*                                                                         *)
(* Text is modelled as a sequence of character codes, so that strip(),     *)
(* lower(), joining and splitting on the tab delimiter are computed.       *)
(* A command record (a Python dict) is a function whose domain is the set  *)
(* of keys the dict holds; cmd.get(key, default) is Get(cmd, key, default).*)
(***************************************************************************)
EXTENDS Integers, Sequences, FiniteSets, TLC

VARIABLES
    op,              \* the operation that ran last ("init" before any)
    files,           \* merge_commands: the files argument, one descriptor per path
    merged,          \* merge_commands: its outcome [raised, raisedAt, result]
    commands,        \* limit_commands: the commands argument
    limits,          \* limit_commands: the limits argument
    limited,         \* limit_commands: its result
    fmtCommands,     \* format_commands: the commands argument
    sortByRecent,    \* format_commands: the sort_by_recent argument
    sortedCommands,  \* format_commands: its local sorted_commands
    formatted,       \* format_commands: its result, a list of lines
    recentFile,      \* recent_tracker: the recency file on disk
    recorded,        \* recent_tracker: the last record_usage call
    listed,          \* recent_tracker: what the last load_recent call returned
    recordLog,       \* recent_tracker: the commands saved since the list was empty
    yamlData,        \* source adapters: what open() and yaml.safe_load() give
    parsed,          \* source adapters: the records the parser returned
    invocation,      \* command line: the utility run, its arguments and stdin
    process,         \* command line: what the run read, printed and returned
    sampleFile,      \* command line: formatted_sample.txt on disk
    histFile,        \* source_history: the shell history file
    maxEntries,      \* source_history: the max_entries argument
    historyEntries,  \* source_history: what get_history_entries returned
    processed        \* source_history: what process_history returned

mergeVars  == <<files, merged>>
limitVars  == <<commands, limits, limited>>
formatVars == <<fmtCommands, sortByRecent, sortedCommands, formatted>>
recentVars == <<recentFile, recorded, listed, recordLog>>
sourceVars == <<yamlData, parsed>>
cliVars    == <<invocation, process, sampleFile>>
historyVars == <<histFile, maxEntries, historyEntries, processed>>

vars ==
    <<op, mergeVars, limitVars, formatVars, recentVars, sourceVars, cliVars,
      historyVars>>

----------------------------------------------------------------------------
(* Text *)

Tab == 9

\* What str.strip() removes at both ends.
Whitespace == {9, 10, 11, 12, 13, 28, 29, 30, 31, 32}

RECURSIVE lstrip(_)
lstrip(s) ==
    IF s # <<>> /\ Head(s) \in Whitespace THEN lstrip(Tail(s)) ELSE s

RECURSIVE rstrip(_)
rstrip(s) ==
    IF s # <<>> /\ s[Len(s)] \in Whitespace
    THEN rstrip(SubSeq(s, 1, Len(s) - 1))
    ELSE s

strip(s) == rstrip(lstrip(s))

lower(s) == [i \in 1..Len(s) |-> IF s[i] \in 65..90 THEN s[i] + 32 ELSE s[i]]

\* Python's order on str: by code point, a proper prefix first.
RECURSIVE StrLess(_, _)
StrLess(s, t) ==
    IF t = <<>> THEN FALSE
    ELSE IF s = <<>> THEN TRUE
    ELSE IF Head(s) # Head(t) THEN Head(s) < Head(t)
    ELSE StrLess(Tail(s), Tail(t))

RECURSIVE Join(_, _)
Join(sep, parts) ==
    IF parts = <<>> THEN <<>>
    ELSE IF Len(parts) = 1 THEN parts[1]
    ELSE parts[1] \o sep \o Join(sep, Tail(parts))

\* line.split("\t"): the fields between the delimiters.
RECURSIVE Split(_, _)
Split(s, delim) ==
    IF \A i \in 1..Len(s) : s[i] # delim THEN <<s>>
    ELSE LET k == CHOOSE i \in 1..Len(s) :
                      s[i] = delim /\ \A j \in 1..(i - 1) : s[j] # delim
         IN  <<SubSeq(s, 1, k - 1)>> \o Split(SubSeq(s, k + 1, Len(s)), delim)

\* dict.get(key, default)
Get(cmd, key, default) == IF key \in DOMAIN cmd THEN cmd[key] ELSE default

Range(s) == {s[i] : i \in 1..Len(s)}

RECURSIVE Flatten(_)
Flatten(ss) == IF ss = <<>> THEN <<>> ELSE Head(ss) \o Flatten(Tail(ss))

RemoveAt(s, i) == SubSeq(s, 1, i - 1) \o SubSeq(s, i + 1, Len(s))

\* All sequences over S of length at most n.
RECURSIVE SeqsUpTo(_, _)
SeqsUpTo(S, n) ==
    IF n = 0 THEN {<<>>}
    ELSE LET shorter == SeqsUpTo(S, n - 1)
         IN  shorter \cup {Append(s, x) : s \in {t \in shorter : Len(t) = n - 1}, x \in S}

----------------------------------------------------------------------------
(* Source priority table *)

SOURCE_PRIORITY ==
    [curated |-> 5, alias |-> 4, function |-> 3, history |-> 2, tldr |-> 1]

\* SOURCE_PRIORITY.get(cmd.get("source", "unknown"), 0)
source_of(cmd) == Get(cmd, "source", "unknown")

priority_of_source(source) == Get(SOURCE_PRIORITY, source, 0)

priority_of(cmd) == priority_of_source(source_of(cmd))

----------------------------------------------------------------------------
(* merge_commands *)

\* A file the caller names, by what open() and json.load() find there.
FileKinds ==
    {"missing",            \* no such path: FileNotFoundError
     "unreadable",         \* exists but open() fails: PermissionError, IsADirectoryError
     "invalid_json",       \* json.JSONDecodeError
     "not_object",         \* valid JSON whose top level is a list: no .get
     "no_commands_key",    \* an object without "commands"
     "commands_not_list",  \* an object whose "commands" is null
     "batch"}              \* an object whose "commands" is a list of records

load_commands_raise_on_missing(file) ==
    [raised   |-> file.kind \in {"missing", "unreadable", "not_object"},
     commands |-> IF file.kind = "batch" THEN file.commands ELSE <<>>,
     iterable |-> file.kind # "commands_not_list"]

\* The list load_commands returns, or the exception that leaves it.  A JSON
\* null under "commands" is returned as it is, and is not iterable.
load_commands(file) ==
    CASE file.kind \in {"missing", "invalid_json"} ->
            [raised |-> FALSE, commands |-> <<>>, iterable |-> TRUE]
      [] file.kind \in {"unreadable", "not_object"} ->
            [raised |-> TRUE, commands |-> <<>>, iterable |-> TRUE]
      [] file.kind = "no_commands_key" ->
            [raised |-> FALSE, commands |-> <<>>, iterable |-> TRUE]
      [] file.kind = "commands_not_list" ->
            [raised |-> FALSE, commands |-> <<>>, iterable |-> FALSE]
      [] OTHER ->
            [raised |-> FALSE, commands |-> file.commands, iterable |-> TRUE]

command_str_unstripped(cmd) == Get(cmd, "command", <<>>)

\* command_str = cmd.get("command", "").strip()
command_str(cmd) == strip(Get(cmd, "command", <<>>))

replaces_ge(priority, existing_priority) == priority >= existing_priority

replaces_never(priority, existing_priority) == FALSE

replaces_always(priority, existing_priority) == TRUE

\* if priority > existing_priority: seen_commands[command_str] = cmd
replaces(priority, existing_priority) == priority > existing_priority

seen_index_none(seen, key) == 0

\* seen_commands is a dict: a list of [key, cmd] entries in insertion order;
\* assigning to a key it holds keeps the key's place.
seen_index(seen, key) ==
    IF \E i \in 1..Len(seen) : seen[i].key = key
    THEN CHOOSE i \in 1..Len(seen) : seen[i].key = key
    ELSE 0

merge_one_move_last(seen, cmd) ==
    LET key == command_str(cmd)
        i   == seen_index(seen, key)
    IN  IF key = <<>> THEN seen
        ELSE IF i # 0
        THEN IF replaces(priority_of(cmd), priority_of(seen[i].cmd))
             THEN Append(RemoveAt(seen, i), [key |-> key, cmd |-> cmd])
             ELSE seen
        ELSE Append(seen, [key |-> key, cmd |-> cmd])

\* The body of "for cmd in commands".
merge_one(seen, cmd) ==
    LET key == command_str(cmd)
        i   == seen_index(seen, key)
    IN  IF key = <<>> THEN seen
        ELSE IF i # 0
        THEN IF replaces(priority_of(cmd), priority_of(seen[i].cmd))
             THEN [seen EXCEPT ![i] = [key |-> key, cmd |-> cmd]]
             ELSE seen
        ELSE Append(seen, [key |-> key, cmd |-> cmd])

RECURSIVE merge_batch(_, _)
merge_batch(seen, cmds) ==
    IF cmds = <<>> THEN seen
    ELSE merge_batch(merge_one(seen, Head(cmds)), Tail(cmds))

\* "for filepath in files": an exception in load_commands, or in iterating
\* what it returned, leaves merge_commands at that file.
RECURSIVE merge_files(_, _, _)
merge_files(seen, fs, n) ==
    IF fs = <<>> THEN [raised |-> FALSE, raisedAt |-> 0, seen |-> seen]
    ELSE LET loaded == load_commands(Head(fs))
         IN  IF loaded.raised \/ ~loaded.iterable
             THEN [raised |-> TRUE, raisedAt |-> n, seen |-> <<>>]
             ELSE merge_files(merge_batch(seen, loaded.commands), Tail(fs), n + 1)

\* merge_commands(files): raised, or the list of seen_commands.values().
merge_commands(fs) ==
    LET m == merge_files(<<>>, fs, 1)
    IN  [raised   |-> m.raised,
         raisedAt |-> m.raisedAt,
         result   |-> [i \in 1..Len(m.seen) |-> m.seen[i].cmd]]

----------------------------------------------------------------------------
(* Inputs of the merge stage *)

MaxMergeSize == 4

sA      == <<97>>
sSpaceA == <<32, 97>>
sB      == <<98>>
sBlank  == <<32>>
sD      == <<100>>

\* Records as the adapters emit them: known and unrecognized sources, a
\* command with surrounding whitespace, a blank command, missing keys.
MergeRecords ==
    {[command |-> c, source |-> s] :
        c \in {sA, sSpaceA}, s \in {"curated", "history", "custom"}}
    \cup {[command |-> sB, source |-> "history"],
          [command |-> sA, source |-> "history", description |-> sD],
          [command |-> sA],
          [command |-> sBlank, source |-> "curated"],
          [source |-> "alias"]}

File(kind, cmds) == [kind |-> kind, commands |-> cmds]

\* The size of a files argument is one per file plus one per record in it.
\* The files whose batch holds exactly j records (every other kind holds none).
FilesOfLen(j) ==
    {File("batch", b) : b \in {c \in SeqsUpTo(MergeRecords, j) : Len(c) = j}}
    \cup (IF j = 0 THEN {File(k, <<>>) : k \in FileKinds \ {"batch"}} ELSE {})

\* Every files argument of size at most n.
RECURSIVE FileLists(_)
FileLists(n) ==
    {<<>>} \cup
    UNION {LET rests == FileLists(n - 1 - j)
           IN  {<<f>> \o rest : f \in FilesOfLen(j), rest \in rests} :
               j \in 0..(n - 1)}

MergeInputs == FileLists(MaxMergeSize)

NoMerge == [raised |-> FALSE, raisedAt |-> 0, result |-> <<>>]
NoRecorded == [command |-> <<>>, trimmed |-> <<>>, raised |-> FALSE, saved |-> FALSE]
NoListed == [raised |-> FALSE, commands |-> <<>>]
AbsentFile == [kind |-> "absent", commands |-> <<>>]

\* The stages a specification does not exercise, at rest.
MergeIdle == files = <<>> /\ merged = NoMerge
LimitIdle == commands = <<>> /\ limits = <<>> /\ limited = <<>>
FormatIdle ==
    fmtCommands = <<>> /\ sortByRecent = <<>> /\ sortedCommands = <<>> /\ formatted = <<>>
RecentIdle ==
    /\ recentFile = AbsentFile /\ recorded = NoRecorded /\ listed = NoListed
    /\ recordLog = <<>>
SourceIdle == yamlData = [kind |-> "missing", entries |-> <<>>] /\ parsed = <<>>

NoInvocation == [tool |-> "none"]
NoProcess == [exit |-> 0, read |-> "none", stdout |-> <<>>]
NoSample == [kind |-> "absent", lines |-> <<>>]

CliIdle == invocation = NoInvocation /\ process = NoProcess /\ sampleFile = NoSample

NoHistory == [kind |-> "absent", text |-> <<>>]

HistoryIdle ==
    histFile = NoHistory /\ maxEntries = 0 /\ historyEntries = <<>> /\ processed = <<>>

InitMerge ==
    /\ op = "init"
    /\ files \in MergeInputs
    /\ merged = NoMerge
    /\ LimitIdle /\ FormatIdle /\ RecentIdle /\ SourceIdle /\ CliIdle /\ HistoryIdle

\* merged = merge_commands(files)
Merge ==
    /\ op = "init"
    /\ merged' = merge_commands(files)
    /\ op' = "merge"
    /\ UNCHANGED <<files, limitVars, formatVars, recentVars, sourceVars, cliVars, historyVars>>

NextMerge == Merge

SpecMerge == InitMerge /\ [][NextMerge]_vars

----------------------------------------------------------------------------
(* Claims about the merge stage, checked under SpecMerge *)

\* The priority table as the specification states it.
TablePriority(cmd) ==
    LET s == IF "source" \in DOMAIN cmd THEN cmd.source ELSE "unknown"
    IN  CASE s = "curated"  -> 5
          [] s = "alias"    -> 4
          [] s = "function" -> 3
          [] s = "history"  -> 2
          [] s = "tldr"     -> 1
          [] OTHER          -> 0

\* The command text as the record stores it, and after trimming.
StoredCommand(cmd) == IF "command" \in DOMAIN cmd THEN cmd.command ELSE <<>>

Trimmed(cmd) == strip(StoredCommand(cmd))

\* The records of the input batches, in input order: batch by batch, then
\* by position in the batch.
InputRecords ==
    Flatten([i \in 1..Len(files) |->
                IF files[i].kind = "batch" THEN files[i].commands ELSE <<>>])

MergeDone == op = "merge" /\ ~merged.raised

\* C1: for every command string (after trimming) of the input batches, the
\* record the merged result keeps for it has a source priority greater than
\* or equal to that of every input record with the same trimmed command.
C1_MergePriority ==
    MergeDone =>
        \A n \in 1..Len(InputRecords) :
            LET r == InputRecords[n] IN
            Trimmed(r) # <<>> =>
                /\ \E i \in 1..Len(merged.result) :
                       Trimmed(merged.result[i]) = Trimmed(r)
                /\ \A i \in 1..Len(merged.result) :
                       Trimmed(merged.result[i]) = Trimmed(r) =>
                           TablePriority(merged.result[i]) >= TablePriority(r)

\* A lower-priority record came first and a higher-priority record of the
\* same trimmed command later replaced it.
C1_Witness ==
    /\ MergeDone
    /\ \E m, n \in 1..Len(InputRecords) :
          /\ m < n
          /\ Trimmed(InputRecords[m]) = Trimmed(InputRecords[n])
          /\ Trimmed(InputRecords[m]) # <<>>
          /\ TablePriority(InputRecords[m]) < TablePriority(InputRecords[n])
          /\ InputRecords[n] \in Range(merged.result)

\* C2: the merged result holds exactly one record per distinct non-empty
\* trimmed command of the inputs: no two of its records agree after
\* trimming, and every non-empty trimmed input command is represented.
C2_MergeUnique ==
    MergeDone =>
        /\ \A i, j \in 1..Len(merged.result) :
               i # j => Trimmed(merged.result[i]) # Trimmed(merged.result[j])
        /\ {Trimmed(merged.result[i]) : i \in 1..Len(merged.result)}
               = {Trimmed(InputRecords[n]) : n \in 1..Len(InputRecords)} \ {<<>>}

\* Two input records of different sources whose commands differ only in
\* surrounding whitespace were merged into one, beside another command.
C2_Witness ==
    /\ MergeDone
    /\ Len(merged.result) = 2
    /\ \E m, n \in 1..Len(InputRecords) :
          /\ Trimmed(InputRecords[m]) = Trimmed(InputRecords[n])
          /\ StoredCommand(InputRecords[m]) # StoredCommand(InputRecords[n])
          /\ Trimmed(InputRecords[m]) # <<>>
          /\ TablePriority(InputRecords[m]) # TablePriority(InputRecords[n])

\* The first input record, in input order, among those of the highest
\* priority for the trimmed command k.
FirstBest(k) ==
    LET same == {n \in 1..Len(InputRecords) : Trimmed(InputRecords[n]) = k}
        best == {n \in same : \A m \in same :
                    TablePriority(InputRecords[n]) >= TablePriority(InputRecords[m])}
    IN  InputRecords[CHOOSE n \in best : \A m \in best : n <= m]

\* C3: among input records of the same trimmed command and equal priority
\* the first in input order is kept; a kept record is replaced only by one
\* of strictly greater priority.  So the record kept for a command is the
\* first of its highest-priority records.
C3_MergeTie ==
    MergeDone =>
        \A i \in 1..Len(merged.result) :
            merged.result[i] = FirstBest(Trimmed(merged.result[i]))

\* Two different records of one trimmed command and equal priority (the same
\* source, or two different unrecognized sources) met, and the earlier one
\* is in the result.
C3_Witness ==
    /\ MergeDone
    /\ \E m, n \in 1..Len(InputRecords) :
          /\ m < n
          /\ Trimmed(InputRecords[m]) = Trimmed(InputRecords[n])
          /\ Trimmed(InputRecords[m]) # <<>>
          /\ InputRecords[m] # InputRecords[n]
          /\ TablePriority(InputRecords[m]) = TablePriority(InputRecords[n])
          /\ InputRecords[m] \in Range(merged.result)
          /\ InputRecords[n] \notin Range(merged.result)
    /\ \E m, n \in 1..Len(InputRecords) :
          /\ m < n
          /\ Trimmed(InputRecords[m]) = Trimmed(InputRecords[n])
          /\ TablePriority(InputRecords[m]) = 0
          /\ TablePriority(InputRecords[n]) = 0
          /\ source_of(InputRecords[m]) # source_of(InputRecords[n])

\* A file every reader of the collection format accepts: absent, or an
\* object with a list of records (or none) under "commands".
Loadable(file) == file.kind \in {"missing", "no_commands_key", "batch"}

\* C9: a nonexistent path in the files argument never makes merge_commands
\* raise, and the outcome is exactly the outcome for the same list with that
\* path removed; with only loadable files beside it merge_commands returns.
C9_MergeMissingFile ==
    op = "merge" =>
        /\ \A i \in 1..Len(files) :
               files[i].kind = "missing" =>
                   /\ merged.raisedAt # i
                   /\ LET without == merge_commands(RemoveAt(files, i))
                      IN  /\ without.raised = merged.raised
                          /\ without.result = merged.result
        /\ (\A i \in 1..Len(files) : Loadable(files[i])) => ~merged.raised

\* A nonexistent path stood between files whose records were merged.
C9_Witness ==
    /\ MergeDone
    /\ \E i \in 1..Len(files) : files[i].kind = "missing"
    /\ merged.result # <<>>
    /\ files[1].kind = "missing"

\* The batch a file contributes under the fail-open policy: its records if
\* it is an object with a "commands" list, no record otherwise.
FailOpenBatch(file) ==
    IF file.kind = "batch" THEN file ELSE [kind |-> "batch", commands |-> <<>>]

\* C10: a file that cannot be read or parsed into the expected collection
\* (unreadable, invalid JSON, JSON that is not an object with a "commands"
\* list) counts as an empty batch: merge_commands does not raise and merges
\* the remaining files.
C10_MergeFailsOpen ==
    op = "merge" =>
        /\ ~merged.raised
        /\ merged.result =
               merge_commands([i \in 1..Len(files) |-> FailOpenBatch(files[i])]).result

\* C11: merging the files argument followed by a copy of itself (each batch
\* listed twice) ends as merging it once does, and with the same result,
\* record for record and in the same order.
C11_MergeIdempotent ==
    op = "merge" =>
        LET twice == merge_commands(files \o files)
        IN  /\ twice.raised = merged.raised
            /\ twice.result = merged.result

\* One batch in which a later record replaced an earlier one and another
\* command stood beside them.
C11_Witness ==
    /\ MergeDone
    /\ Len(files) = 1
    /\ files[1].kind = "batch"
    /\ Len(merged.result) = 2
    /\ Len(InputRecords) = 3
    /\ merged.result[1] # InputRecords[1]
    /\ merge_commands(<<files[1], files[1]>>).result = merged.result

\* The distinct non-empty values of a sequence, in order of first occurrence.
RECURSIVE FirstOccurrences(_)
FirstOccurrences(seq) ==
    IF seq = <<>> THEN <<>>
    ELSE LET front == FirstOccurrences(SubSeq(seq, 1, Len(seq) - 1))
             last  == seq[Len(seq)]
         IN  IF last = <<>> \/ last \in Range(front) THEN front ELSE Append(front, last)

\* C27: the result of merge_commands lists the commands in the order in
\* which each trimmed command string first occurred in the input (batch
\* order, then position in the batch); a record replaced later by a record
\* of higher priority leaves its place to the replacement.
C27_MergeOrder ==
    MergeDone =>
        [i \in 1..Len(merged.result) |-> Trimmed(merged.result[i])]
            = FirstOccurrences([n \in 1..Len(InputRecords) |-> Trimmed(InputRecords[n])])

\* A command's first record was replaced by a later record of higher
\* priority, with another command between them: the replacement is first.
C27_Witness ==
    /\ MergeDone
    /\ Len(merged.result) = 2
    /\ \E m, k, n \in 1..Len(InputRecords) :
          /\ m < k /\ k < n
          /\ Trimmed(InputRecords[m]) = Trimmed(InputRecords[n])
          /\ Trimmed(InputRecords[k]) \notin {<<>>, Trimmed(InputRecords[m])}
          /\ TablePriority(InputRecords[n]) > TablePriority(InputRecords[m])
          /\ merged.result[1] = InputRecords[n]
          /\ merged.result[2] = InputRecords[k]

\* Every ordering of the input batches.
Orderings ==
    LET n == Len(files)
    IN  {[i \in 1..n |-> files[p[i]]] :
            p \in {q \in [1..n -> 1..n] : \A i, j \in 1..n : i # j => q[i] # q[j]}}

\* No two input records of the command have the same priority.
DistinctPriorities(c) ==
    \A m, n \in 1..Len(InputRecords) :
        (m # n /\ Trimmed(InputRecords[m]) = c /\ Trimmed(InputRecords[n]) = c)
            => TablePriority(InputRecords[m]) # TablePriority(InputRecords[n])

\* C28: for any two orderings of the same input batches merge_commands
\* yields the same set of trimmed command strings and, for each command, a
\* kept record of the same source priority; when all records sharing a
\* command have pairwise distinct priorities, the kept record itself is the
\* same in both orderings.
C28_MergeOrderIndependent ==
    op = "merge" =>
        \A fs \in Orderings :
            LET other == merge_commands(fs)
            IN  /\ other.raised = merged.raised
                /\ Len(other.result) = Len(merged.result)
                /\ \A i \in 1..Len(merged.result) :
                       \E j \in 1..Len(other.result) :
                           /\ Trimmed(other.result[j]) = Trimmed(merged.result[i])
                           /\ TablePriority(other.result[j])
                                  = TablePriority(merged.result[i])
                           /\ DistinctPriorities(Trimmed(merged.result[i]))
                                  => other.result[j] = merged.result[i]

\* Two batches hold the same command from sources of different priority,
\* the lower one in the first batch: the higher one is kept, as it is when
\* the batches come in the other order.
C28_Witness ==
    /\ MergeDone
    /\ Len(files) = 2
    /\ \A i \in 1..2 : files[i].kind = "batch" /\ Len(files[i].commands) = 1
    /\ Trimmed(files[1].commands[1]) = Trimmed(files[2].commands[1])
    /\ TablePriority(files[1].commands[1]) < TablePriority(files[2].commands[1])
    /\ merged.result = files[2].commands
    /\ merge_commands(<<files[2], files[1]>>).result = files[2].commands

----------------------------------------------------------------------------
(* limit_commands *)

\* by_source.keys(): the source kinds in the order in which each first occurs.
RECURSIVE by_source_keys(_, _)
by_source_keys(cmds, keys) ==
    IF cmds = <<>> THEN keys
    ELSE by_source_keys(Tail(cmds),
                        IF source_of(Head(cmds)) \in Range(keys)
                        THEN keys
                        ELSE Append(keys, source_of(Head(cmds))))

\* by_source[source]: the records of that source, in input order.
by_source(cmds, source) ==
    LET of_source(cmd) == source_of(cmd) = source
    IN  SelectSeq(cmds, of_source)

\* Where a stable descending sort puts key k into an already sorted list:
\* after every key of greater or equal priority.
RECURSIVE insert_desc(_, _)
insert_desc(sorted, k) ==
    IF sorted = <<>> THEN <<k>>
    ELSE IF priority_of_source(Head(sorted)) >= priority_of_source(k)
         THEN <<Head(sorted)>> \o insert_desc(Tail(sorted), k)
         ELSE <<k>> \o sorted

RECURSIVE sort_desc(_, _)
sort_desc(sorted, keys) ==
    IF keys = <<>> THEN sorted
    ELSE sort_desc(insert_desc(sorted, Head(keys)), Tail(keys))

sorted_sources_unsorted(keys) == keys

\* sorted(by_source.keys(), key=lambda s: SOURCE_PRIORITY.get(s, 0), reverse=True)
sorted_sources(keys) == sort_desc(<<>>, keys)

take_one_more(source_commands, limit) ==
    SubSeq(source_commands, 1,
           IF limit + 1 < Len(source_commands) THEN limit + 1 ELSE Len(source_commands))

\* source_commands[:limit], a Python slice: a negative limit counts from the end.
take(source_commands, limit) ==
    LET n    == Len(source_commands)
        stop == IF limit >= 0
                THEN (IF limit < n THEN limit ELSE n)
                ELSE (IF n + limit > 0 THEN n + limit ELSE 0)
    IN  SubSeq(source_commands, 1, stop)

limited_of_unlimited(cmds, lims, source) == by_source(cmds, source)

\* limit = limits.get(source, len(source_commands)); limited = source_commands[:limit]
limited_of(cmds, lims, source) ==
    LET source_commands == by_source(cmds, source)
    IN  take(source_commands, Get(lims, source, Len(source_commands)))

RECURSIVE extend_all(_, _, _)
extend_all(cmds, lims, sources) ==
    IF sources = <<>> THEN <<>>
    ELSE limited_of(cmds, lims, Head(sources)) \o extend_all(cmds, lims, Tail(sources))

limit_commands(cmds, lims) ==
    extend_all(cmds, lims, sorted_sources(by_source_keys(cmds, <<>>)))

----------------------------------------------------------------------------
(* Inputs of the limit stage *)

MaxCommands == 3
MaxLimit == 2

\* Records of two known kinds and two unrecognized kinds (one named, one
\* with no "source" key), two commands of each.
LimitRecords ==
    {[command |-> c, source |-> s] :
        c \in {sA, sB}, s \in {"curated", "history", "custom"}}
    \cup {[command |-> c] : c \in {sA, sB}}

\* A limits mapping as main() parses it from "--limit source:count": any
\* integer count, negative ones included, for any of the named sources.
LimitedSources == {"curated", "custom"}

LimitMappings ==
    UNION {[D -> -1..MaxLimit] : D \in SUBSET LimitedSources}

InitLimit ==
    /\ op = "init"
    /\ commands \in SeqsUpTo(LimitRecords, MaxCommands)
    /\ limits \in LimitMappings
    /\ limited = <<>>
    /\ MergeIdle /\ FormatIdle /\ RecentIdle /\ SourceIdle /\ CliIdle /\ HistoryIdle

\* limited = limit_commands(commands, limits)
Limit ==
    /\ op = "init"
    /\ limited' = limit_commands(commands, limits)
    /\ op' = "limit"
    /\ UNCHANGED <<commands, limits, mergeVars, formatVars, recentVars, sourceVars, cliVars, historyVars>>

NextLimit == Limit

SpecLimit == InitLimit /\ [][NextLimit]_vars

----------------------------------------------------------------------------
(* Claims about the limit stage, checked under SpecLimit *)

SourceKind(cmd) == IF "source" \in DOMAIN cmd THEN cmd.source ELSE "unknown"

CountOf(cmds, s) == Cardinality({i \in 1..Len(cmds) : SourceKind(cmds[i]) = s})

RespectsCap(s) ==
    /\ CountOf(limited, s) <= limits[s]
    /\ CountOf(commands, s) >= limits[s] => CountOf(limited, s) = limits[s]

\* C4 as stated: for every source kind with a configured limit L the output
\* holds at most L records of that kind, and exactly L when the input holds
\* at least L.
C4_LimitCaps_AsStated ==
    op = "limit" => \A s \in DOMAIN limits : RespectsCap(s)

\* C4, amended: for every source kind with a configured limit L >= 0 the
\* output holds at most L records of that kind, and exactly L when the input
\* holds at least L.
C4_LimitCaps ==
    op = "limit" => \A s \in DOMAIN limits : limits[s] >= 0 => RespectsCap(s)

\* A limit cut one kind down to exactly L > 0 and left another kind, with
\* fewer records than its limit, whole.
C4_Witness ==
    /\ op = "limit"
    /\ \E s \in DOMAIN limits :
          /\ limits[s] > 0
          /\ CountOf(commands, s) > limits[s]
          /\ CountOf(limited, s) = limits[s]
    /\ \E s \in DOMAIN limits :
          /\ limits[s] > CountOf(commands, s)
          /\ CountOf(commands, s) > 0
          /\ CountOf(limited, s) = CountOf(commands, s)

Contiguous(cmds) ==
    \A i, j, k \in 1..Len(cmds) :
        (i < k /\ k < j /\ SourceKind(cmds[i]) = SourceKind(cmds[j]))
            => SourceKind(cmds[k]) = SourceKind(cmds[i])

\* The place of the first record of kind s in the input.
FirstOf(cmds, s) ==
    CHOOSE i \in 1..Len(cmds) :
        SourceKind(cmds[i]) = s /\ \A j \in 1..(i - 1) : SourceKind(cmds[j]) # s

\* C5 as stated: the records of each source kind are contiguous and the
\* groups appear in strictly descending priority order, for any set of
\* source kinds, several unrecognized ones included.
C5_LimitOrder_AsStated ==
    op = "limit" =>
        /\ Contiguous(limited)
        /\ \A i, j \in 1..Len(limited) :
               (i < j /\ SourceKind(limited[i]) # SourceKind(limited[j]))
                   => TablePriority(limited[i]) > TablePriority(limited[j])

\* C5, amended: the records of each source kind are contiguous and the
\* groups appear in descending priority order; groups of equal priority
\* (several unrecognized kinds, all of priority 0) appear in the order in
\* which their kinds first occur in the input.
C5_LimitOrder ==
    op = "limit" =>
        /\ Contiguous(limited)
        /\ \A i, j \in 1..Len(limited) :
               (i < j /\ SourceKind(limited[i]) # SourceKind(limited[j])) =>
                   \/ TablePriority(limited[i]) > TablePriority(limited[j])
                   \/ /\ TablePriority(limited[i]) = TablePriority(limited[j])
                      /\ FirstOf(commands, SourceKind(limited[i]))
                             < FirstOf(commands, SourceKind(limited[j]))

\* The input listed a lower-priority kind before a higher one and mixed two
\* unrecognized kinds; the output holds all three groups.
C5_Witness ==
    /\ op = "limit"
    /\ Len(limited) = 3
    /\ SourceKind(commands[1]) = "custom"
    /\ SourceKind(commands[2]) = "unknown"
    /\ TablePriority(commands[3]) > 0
    /\ SourceKind(limited[1]) = SourceKind(commands[3])

\* C12: for every source kind whose configured limit is an integer <= 0
\* (zero or negative) the output holds no record of that kind, however many
\* the input holds.
C12_NonPositiveLimit ==
    op = "limit" =>
        \A s \in DOMAIN limits : limits[s] <= 0 => CountOf(limited, s) = 0

\* The records of kind s, in the order in which cmds lists them.
GroupOf(cmds, s) ==
    LET of_kind(cmd) == SourceKind(cmd) = s
    IN  SelectSeq(cmds, of_kind)

Min(a, b) == IF a < b THEN a ELSE b

\* C18: for every source kind present in the input, the output records of
\* that kind are exactly the first min(L, n) of its n input records, in
\* input order, L being its configured limit; a kind absent from the limits
\* mapping keeps all n.
C18_LimitPrefix ==
    op = "limit" =>
        \A k \in 1..Len(commands) :
            LET s == SourceKind(commands[k])
                g == GroupOf(commands, s)
                n == Len(g)
            IN  GroupOf(limited, s) =
                    IF s \in DOMAIN limits
                    THEN SubSeq(g, 1, Min(limits[s], n))
                    ELSE g

----------------------------------------------------------------------------
(* format_for_fzf *)

\* "\033[38;2;29;32;33m" and "\033[0m"
DIM == <<27, 91, 51, 56, 59, 50, 59, 50, 57, 59, 51, 50, 59, 51, 51, 109>>
RESET == <<27, 91, 48, 109>>

\* " " * 300
PADDING == [i \in 1..300 |-> 32]

CommaSpace == <<44, 32>>
SpaceBarSpace == <<32, 124, 32>>

\* The text of a line and its five parts, as format_command builds them.
format_parts(cmd) ==
    LET command      == strip(Get(cmd, "command", <<>>))
        description  == strip(Get(cmd, "description", <<>>))
        tags         == Get(cmd, "tags", <<>>)
        examples     == Get(cmd, "examples", <<>>)
        tags_str     == IF tags # <<>> THEN Join(CommaSpace, tags) ELSE <<>>
        examples_str == IF examples # <<>> THEN Join(SpaceBarSpace, examples) ELSE <<>>
        search_parts == (IF description # <<>> THEN <<description>> ELSE <<>>)
                        \o (IF tags_str # <<>> THEN <<tags_str>> ELSE <<>>)
        search_text  == Join(<<32>>, search_parts)
        display      == IF search_text # <<>>
                        THEN command \o PADDING \o DIM \o search_text \o RESET
                        ELSE command
    IN  <<display, command, description, tags_str, examples_str>>

\* f"{display}\t{command}\t{description}\t{tags_str}\t{examples_str}"
format_command(cmd) == Join(<<Tab>>, format_parts(cmd))

recent_idx_default_zero(sort_by_recent, cmd_str) ==
    IF cmd_str \in Range(sort_by_recent)
    THEN (CHOOSE i \in 1..Len(sort_by_recent) :
              /\ sort_by_recent[i] = cmd_str
              /\ \A j \in (i + 1)..Len(sort_by_recent) : sort_by_recent[j] # cmd_str) - 1
    ELSE 0

\* recent_map.get(cmd_str, 999999): recent_map holds, for each string of
\* sort_by_recent, the index enumerate() gave its last occurrence.
recent_idx(sort_by_recent, cmd_str) ==
    IF cmd_str \in Range(sort_by_recent)
    THEN (CHOOSE i \in 1..Len(sort_by_recent) :
              /\ sort_by_recent[i] = cmd_str
              /\ \A j \in (i + 1)..Len(sort_by_recent) : sort_by_recent[j] # cmd_str) - 1
    ELSE 999999

sort_key_case_sensitive(sort_by_recent, cmd) ==
    LET cmd_str == Get(cmd, "command", <<>>)
    IN  <<recent_idx(sort_by_recent, cmd_str), cmd_str>>

\* sort_key(cmd) = (recent_idx, cmd_str.lower()), on the command as stored.
sort_key(sort_by_recent, cmd) ==
    LET cmd_str == Get(cmd, "command", <<>>)
    IN  <<recent_idx(sort_by_recent, cmd_str), lower(cmd_str)>>

\* The order of Python tuples: by the first component, then the second.
KeyLess(k1, k2) ==
    \/ k1[1] < k2[1]
    \/ k1[1] = k2[1] /\ StrLess(k1[2], k2[2])

\* Where a stable ascending sort puts cmd: after every record whose key is
\* not greater.
RECURSIVE insert_sorted(_, _, _)
insert_sorted(sort_by_recent, sorted, cmd) ==
    IF sorted = <<>> THEN <<cmd>>
    ELSE IF KeyLess(sort_key(sort_by_recent, cmd), sort_key(sort_by_recent, Head(sorted)))
         THEN <<cmd>> \o sorted
         ELSE <<Head(sorted)>> \o insert_sorted(sort_by_recent, Tail(sorted), cmd)

\* sorted(commands, key=sort_key)
RECURSIVE sorted_by_key(_, _, _)
sorted_by_key(sort_by_recent, sorted, cmds) ==
    IF cmds = <<>> THEN sorted
    ELSE sorted_by_key(sort_by_recent,
                       insert_sorted(sort_by_recent, sorted, Head(cmds)),
                       Tail(cmds))

\* [format_command(cmd) for cmd in sorted_commands]
format_all(sorted) == [i \in 1..Len(sorted) |-> format_command(sorted[i])]

format_commands(cmds, sort_by_recent) ==
    format_all(sorted_by_key(sort_by_recent, <<>>, cmds))

----------------------------------------------------------------------------
(* Inputs of the format stage *)

MaxFormat == 3
MaxRecency == 2

sUpperB == <<66>>
sSpaceD == <<32, 100>>
sDTabE  == <<100, 9, 101>>
sX      == <<120>>
sY      == <<121>>
sE      == <<101>>
sBSpace == <<98, 32>>

\* Records with every optional field missing, empty or filled, commands
\* stored with leading or trailing whitespace, and free text that holds a tab.
FormatRecords ==
    {[command |-> sA],
     [command |-> sUpperB, description |-> <<>>, tags |-> <<>>, examples |-> <<>>],
     [command |-> sB, description |-> sD, tags |-> <<sX, sY>>, examples |-> <<sE, sD>>],
     [command |-> sSpaceA, description |-> sSpaceD],
     [command |-> sA, description |-> sDTabE],
     [command |-> sB, tags |-> <<sX>>],
     [command |-> sBSpace]}

NoDuplicates(s) == \A i, j \in 1..Len(s) : i # j => s[i] # s[j]

\* Recency lists as record_usage keeps them: no entry twice.  The empty
\* list stands for a call without a recency list as well.
RecencyLists ==
    {r \in SeqsUpTo({sA, sB, sUpperB}, MaxRecency) : NoDuplicates(r)}

InitFormat ==
    /\ op = "init"
    /\ fmtCommands \in SeqsUpTo(FormatRecords, MaxFormat)
    /\ sortByRecent \in RecencyLists
    /\ sortedCommands = <<>>
    /\ formatted = <<>>
    /\ MergeIdle /\ LimitIdle /\ RecentIdle /\ SourceIdle /\ CliIdle /\ HistoryIdle

\* formatted = format_commands(fmtCommands, sortByRecent)
Format ==
    /\ op = "init"
    /\ sortedCommands' = sorted_by_key(sortByRecent, <<>>, fmtCommands)
    /\ formatted' = format_commands(fmtCommands, sortByRecent)
    /\ op' = "format"
    /\ UNCHANGED <<fmtCommands, sortByRecent, mergeVars, limitVars, recentVars, sourceVars, cliVars, historyVars>>

NextFormat == Format

SpecFormat == InitFormat /\ [][NextFormat]_vars

----------------------------------------------------------------------------
(* Claims about the format stage, checked under SpecFormat *)

\* C6: every line splits on the tab delimiter into exactly 5 fields,
\* whichever optional fields are missing or empty and whatever text the
\* command, description, tags and examples hold.
C6_FormatFieldCount ==
    op = "format" =>
        \A i \in 1..Len(formatted) : Len(Split(formatted[i], 9)) = 5

InRecency(cmd) == StoredCommand(cmd) \in Range(sortByRecent)

RecencyPosition(cmd) ==
    CHOOSE i \in 1..Len(sortByRecent) : sortByRecent[i] = StoredCommand(cmd)

\* C7: with a recency list, every record whose command is in the list is
\* output before every record whose command is not, and the records in the
\* list are output in the order of their positions in it; line i is the
\* line of the i-th record in that order (it starts with its command).
C7_FormatRecency ==
    (op = "format" /\ sortByRecent # <<>>) =>
        /\ \A i, j \in 1..Len(sortedCommands) :
               (i < j /\ InRecency(sortedCommands[j])) =>
                   /\ InRecency(sortedCommands[i])
                   /\ RecencyPosition(sortedCommands[i])
                          <= RecencyPosition(sortedCommands[j])
        /\ Len(formatted) = Len(sortedCommands)
        /\ \A i \in 1..Len(formatted) :
               LET t == Trimmed(sortedCommands[i])
               IN  SubSeq(formatted[i], 1, Len(t)) = t

\* The example of the specification: recency list [b, a] and the commands
\* in another order, one of them unmatched and first in the input.
C7_Witness ==
    /\ op = "format"
    /\ Len(sortByRecent) = 2
    /\ Len(fmtCommands) = 3
    /\ ~InRecency(fmtCommands[1])
    /\ InRecency(fmtCommands[2]) /\ InRecency(fmtCommands[3])
    /\ RecencyPosition(fmtCommands[2]) > RecencyPosition(fmtCommands[3])
    /\ sortedCommands = <<fmtCommands[3], fmtCommands[2], fmtCommands[1]>>

\* The command text of a record without regard to case.
CaseFolded(cmd) == lower(StoredCommand(cmd))

\* The records of cmds outside the recency list whose command text is that
\* of cmd, case apart, in the order of cmds.
UnmatchedLike(cmds, cmd) ==
    LET like(c) == ~InRecency(c) /\ CaseFolded(c) = CaseFolded(cmd)
    IN  SelectSeq(cmds, like)

\* C15: the records whose command is not in the recency list (all of them
\* when there is none) are output in non-decreasing case-insensitive order
\* of their command text, and those with equal sort keys keep their
\* relative input order; line i is the line of the i-th record.
C15_FormatUnmatchedOrder ==
    op = "format" =>
        /\ \A i, j \in 1..Len(sortedCommands) :
               (i < j /\ ~InRecency(sortedCommands[i]) /\ ~InRecency(sortedCommands[j]))
                   => ~StrLess(CaseFolded(sortedCommands[j]), CaseFolded(sortedCommands[i]))
        /\ \A i \in 1..Len(sortedCommands) :
               ~InRecency(sortedCommands[i]) =>
                   UnmatchedLike(sortedCommands, sortedCommands[i])
                       = UnmatchedLike(fmtCommands, sortedCommands[i])
        /\ Len(formatted) = Len(sortedCommands)
        /\ \A i \in 1..Len(formatted) :
               LET t == Trimmed(sortedCommands[i])
               IN  SubSeq(formatted[i], 1, Len(t)) = t

\* No recency list; the input held b, B and a in that order, and the output
\* has a first and then b before B, as the input had them.
C15_Witness ==
    /\ op = "format"
    /\ sortByRecent = <<>>
    /\ Len(fmtCommands) = 3
    /\ StoredCommand(fmtCommands[1]) = sB
    /\ StoredCommand(fmtCommands[2]) = sUpperB
    /\ StoredCommand(fmtCommands[3]) = sA
    /\ sortedCommands = <<fmtCommands[3], fmtCommands[1], fmtCommands[2]>>

\* How often x occurs in the sequence s.
Occurrences(s, x) == Cardinality({i \in 1..Len(s) : s[i] = x})

\* The fields of line i: its text split on the tab delimiter.
FieldsOf(i) == Split(formatted[i], 9)

TrimmedDescription(cmd) ==
    strip(IF "description" \in DOMAIN cmd THEN cmd.description ELSE <<>>)

\* C16: format_commands returns exactly one line per input record (the
\* records of the output are those of the input, each as often), and in the
\* line of a record field 2 is its trimmed command and field 3 its trimmed
\* description, the empty string when it has none.
C16_FormatFidelity ==
    op = "format" =>
        /\ Len(formatted) = Len(fmtCommands)
        /\ Len(sortedCommands) = Len(fmtCommands)
        /\ \A k \in 1..Len(fmtCommands) :
               Occurrences(sortedCommands, fmtCommands[k])
                   = Occurrences(fmtCommands, fmtCommands[k])
        /\ \A i \in 1..Len(formatted) :
               /\ Len(FieldsOf(i)) >= 3
               /\ FieldsOf(i)[2] = Trimmed(sortedCommands[i])
               /\ FieldsOf(i)[3] = TrimmedDescription(sortedCommands[i])

TagsOf(cmd) == IF "tags" \in DOMAIN cmd THEN cmd.tags ELSE <<>>

ExamplesOf(cmd) == IF "examples" \in DOMAIN cmd THEN cmd.examples ELSE <<>>

\* C17: in the line of every record the tags field (field 4) is the record's
\* tags joined with ", " and the examples field (field 5) its examples
\* joined with " | ", both in the record's element order.
C17_FlattenOrder ==
    op = "format" =>
        \A i \in 1..Len(formatted) :
            /\ Len(FieldsOf(i)) >= 5
            /\ FieldsOf(i)[4] = Join(<<44, 32>>, TagsOf(sortedCommands[i]))
            /\ FieldsOf(i)[5] = Join(<<32, 124, 32>>, ExamplesOf(sortedCommands[i]))

\* The command field a record's line is built with: command, the second of
\* the five parts.
EmittedCommand(cmd) == format_parts(cmd)[2]

\* C29: in the output of format_commands with a recency list, a line whose
\* emitted command field (the trimmed command) is an entry of the list
\* precedes every line whose emitted command field is not, also for records
\* whose stored command text has leading or trailing whitespace.
C29_RecencyMatchesEmitted ==
    (op = "format" /\ sortByRecent # <<>>) =>
        \A i, j \in 1..Len(sortedCommands) :
            (i < j /\ EmittedCommand(sortedCommands[j]) \in Range(sortByRecent))
                => EmittedCommand(sortedCommands[i]) \in Range(sortByRecent)

----------------------------------------------------------------------------
(* recent_tracker *)

MAX_RECENT == 100

\* The recency file, by what os.path.exists(), open() and json.load() find.
RecentFileKinds ==
    {"absent",       \* os.path.exists() is false
     "unreadable",   \* open() fails: IOError
     "corrupt",      \* json.JSONDecodeError (an empty or cut-off file too)
     "not_object",   \* valid JSON whose top level is a list: no .get
     "list"}         \* an object whose "commands" is a list of strings

\* load_recent(): the list, or the exception that leaves it.
load_recent(file) ==
    CASE file.kind \in {"absent", "unreadable", "corrupt"} ->
            [raised |-> FALSE, commands |-> <<>>]
      [] file.kind = "not_object" ->
            [raised |-> TRUE, commands |-> <<>>]
      [] OTHER ->
            [raised |-> FALSE, commands |-> file.commands]

first_max_tail(cmds) ==
    SubSeq(cmds, IF Len(cmds) > MAX_RECENT THEN Len(cmds) - MAX_RECENT + 1 ELSE 1, Len(cmds))

\* commands[:MAX_RECENT]
first_max(cmds) ==
    SubSeq(cmds, 1, IF Len(cmds) < MAX_RECENT THEN Len(cmds) ELSE MAX_RECENT)

\* What open(recent_file, "w") and json.dump() can do.
SaveOutcomes ==
    {"ok",            \* the file holds the new list
     "open_failed",   \* IOError from open(): the file is as it was
     "write_failed"}  \* IOError from json.dump(): open() has emptied the file

\* save_recent(commands): the file afterwards.
save_recent(file, cmds, outcome) ==
    CASE outcome = "ok"          -> [kind |-> "list", commands |-> first_max(cmds)]
      [] outcome = "open_failed" -> file
      [] OTHER                   -> [kind |-> "corrupt", commands |-> <<>>]

remove_first_none(recent, command) == recent

\* recent.remove(command): the first occurrence goes.
remove_first(recent, command) ==
    IF command \in Range(recent)
    THEN RemoveAt(recent,
                  CHOOSE i \in 1..Len(recent) :
                      recent[i] = command /\ \A j \in 1..(i - 1) : recent[j] # command)
    ELSE recent

record_usage_unguarded(file, command, outcome) ==
    LET trimmed == strip(command)
        loaded  == load_recent(file)
        recent  == first_max(<<trimmed>> \o remove_first(loaded.commands, trimmed))
    IN  IF loaded.raised
        THEN [file |-> file,
              call |-> [command |-> command, trimmed |-> trimmed,
                        raised |-> TRUE, saved |-> FALSE]]
        ELSE [file |-> save_recent(file, recent, outcome),
              call |-> [command |-> command, trimmed |-> trimmed,
                        raised |-> FALSE, saved |-> outcome = "ok"]]

\* record_usage(command): the file afterwards and how the call went.
record_usage(file, command, outcome) ==
    LET trimmed == strip(command)
        loaded  == load_recent(file)
        recent  == first_max(<<trimmed>> \o remove_first(loaded.commands, trimmed))
    IN  IF command = <<>> \/ trimmed = <<>>
        THEN [file |-> file,
              call |-> [command |-> command, trimmed |-> trimmed,
                        raised |-> FALSE, saved |-> FALSE]]
        ELSE IF loaded.raised
        THEN [file |-> file,
              call |-> [command |-> command, trimmed |-> trimmed,
                        raised |-> TRUE, saved |-> FALSE]]
        ELSE [file |-> save_recent(file, recent, outcome),
              call |-> [command |-> command, trimmed |-> trimmed,
                        raised |-> FALSE, saved |-> outcome = "ok"]]

\* Where the end of the process can cut save_recent short.
CrashPoints ==
    {"before_open",   \* the file is as it was
     "after_open",    \* open(recent_file, "w") has emptied the file and the
                      \* text of json.dump() is not, or not all, in it
     "after_dump"}    \* the file holds the new list

\* save_recent(commands) cut short: the file afterwards.  The text goes
\* straight into recent_file; there is no other file and no rename.
save_recent_crashed(file, cmds, point) ==
    CASE point = "before_open" -> file
      [] point = "after_open"  -> [kind |-> "corrupt", commands |-> <<>>]
      [] OTHER                 -> [kind |-> "list", commands |-> first_max(cmds)]

----------------------------------------------------------------------------
(* Inputs of the recency tracker *)

MaxPersisted == 3

sASpace == <<32, 97, 32>>

\* The i-th of many distinct commands: a letter and a digit.
Entry(i) == <<97 + (i \div 10), 48 + (i % 10)>>

Entries(n) == [i \in 1..n |-> Entry(i)]

\* Whatever a recency file may hold when the tracker starts: nothing, junk,
\* any short list (an entry twice included), a list at or near the cap.
PersistedFiles ==
    {[kind |-> k, commands |-> <<>>] : k \in RecentFileKinds \ {"list"}}
    \cup {[kind |-> "list", commands |-> c] : c \in SeqsUpTo({sA, sB}, MaxPersisted)}
    \cup {[kind |-> "list", commands |-> Entries(n)] :
              n \in {MAX_RECENT - 1, MAX_RECENT, MAX_RECENT + 1}}

RecordInputs == {sA, sB, sASpace, sBlank, <<>>, Entry(MAX_RECENT)}

InitRecent ==
    /\ op = "init"
    /\ recentFile \in PersistedFiles
    /\ recorded = NoRecorded
    /\ listed = NoListed
    /\ recordLog = <<>>
    /\ MergeIdle /\ LimitIdle /\ FormatIdle /\ SourceIdle /\ CliIdle /\ HistoryIdle

\* recent_tracker.py record <command>
RecordUsage ==
    \E command \in RecordInputs, outcome \in SaveOutcomes :
        LET r == record_usage(recentFile, command, outcome)
        IN  /\ recentFile' = r.file
            /\ recorded' = r.call
            /\ listed' = NoListed
            /\ op' = "record"
            /\ UNCHANGED <<recordLog, mergeVars, limitVars, formatVars, sourceVars, cliVars, historyVars>>

\* recent_tracker.py list
ListRecent ==
    /\ listed' = load_recent(recentFile)
    /\ recorded' = NoRecorded
    /\ op' = "list"
    /\ UNCHANGED <<recordLog, recentFile, mergeVars, limitVars, formatVars, sourceVars, cliVars, historyVars>>

\* recent_tracker.py clear
ClearRecent ==
    \E outcome \in SaveOutcomes :
        /\ recentFile' = save_recent(recentFile, <<>>, outcome)
        /\ recorded' = NoRecorded
        /\ listed' = NoListed
        /\ op' = "clear"
        /\ UNCHANGED <<recordLog, mergeVars, limitVars, formatVars, sourceVars, cliVars, historyVars>>

\* recent_tracker.py record <command>, the process ending during save_recent
CrashInRecord ==
    \E command \in RecordInputs, point \in CrashPoints :
        LET trimmed == strip(command)
            loaded  == load_recent(recentFile)
            recent  == first_max(<<trimmed>> \o remove_first(loaded.commands, trimmed))
        IN  /\ trimmed # <<>>
            /\ ~loaded.raised
            /\ recentFile' = save_recent_crashed(recentFile, recent, point)
            /\ recorded' = [command |-> command, trimmed |-> trimmed,
                            raised |-> FALSE, saved |-> FALSE]
            /\ listed' = NoListed
            /\ op' = "record_crash"
            /\ UNCHANGED <<recordLog, mergeVars, limitVars, formatVars, sourceVars, cliVars, historyVars>>

\* recent_tracker.py clear, the process ending during save_recent
CrashInClear ==
    \E point \in CrashPoints :
        /\ recentFile' = save_recent_crashed(recentFile, <<>>, point)
        /\ recorded' = NoRecorded
        /\ listed' = NoListed
        /\ op' = "clear_crash"
        /\ UNCHANGED <<recordLog, mergeVars, limitVars, formatVars, sourceVars, cliVars, historyVars>>

NextRecent ==
    RecordUsage \/ ListRecent \/ ClearRecent \/ CrashInRecord \/ CrashInClear

SpecRecent == InitRecent /\ [][NextRecent]_vars

----------------------------------------------------------------------------
(* Claims about the recency tracker, checked under SpecRecent *)

\* C8: for any persisted recency list and any command c whose trimmed text
\* is not empty, after record(c) the persisted list has trim(c) at the
\* front, holds it exactly once and has at most 100 entries.  (Stated for
\* the calls whose save went through.)
C8_RecordContract ==
    (op = "record" /\ recorded.saved) =>
        /\ recentFile.kind = "list"
        /\ recentFile.commands # <<>>
        /\ recentFile.commands[1] = recorded.trimmed
        /\ Occurrences(recentFile.commands, recorded.trimmed) = 1
        /\ Len(recentFile.commands) <= 100

\* C13: list() returns the empty list and never raises when the recency file
\* does not exist, cannot be read, or holds invalid JSON or JSON that is not
\* an object with a "commands" list; otherwise it returns the persisted list
\* unmodified.
C13_ListFailsOpen ==
    op = "list" =>
        /\ ~listed.raised
        /\ listed.commands =
               IF recentFile.kind = "list" THEN recentFile.commands ELSE <<>>

\* The list record_usage builds for a command from what the file holds: the
\* command in front, no other occurrence of it, at most 100 entries.
NewList(file, trimmed) ==
    LET old  == IF file.kind = "list" THEN file.commands ELSE <<>>
        keep(c) == c # trimmed
        all  == <<trimmed>> \o SelectSeq(old, keep)
    IN  SubSeq(all, 1, Min(Len(all), 100))

CompleteList(cmds) == [kind |-> "list", commands |-> cmds]

\* C14: when the process ends at any point during a save of the recency
\* file (record or clear), the file afterwards holds either what it held
\* before or the complete new list, never an empty, truncated or partly
\* written text.  (Stated for a file that held a saved list.)
C14_CrashAtomic ==
    [][/\ (op' = "record_crash" /\ recentFile.kind = "list") =>
              \/ recentFile' = recentFile
              \/ recentFile' = CompleteList(NewList(recentFile, recorded'.trimmed))
       /\ (op' = "clear_crash" /\ recentFile.kind = "list") =>
              \/ recentFile' = recentFile
              \/ recentFile' = CompleteList(<<>>)]_vars


\* C21: record(c) with c empty or made of whitespace only leaves the
\* recency file, and so the persisted list, exactly as it was, and does not
\* raise.
C21_RecordEmptyNoOp ==
    [][(op' = "record" /\ strip(recorded'.command) = <<>>) =>
           /\ recentFile' = recentFile
           /\ ~recorded'.raised
           /\ ~recorded'.saved]_vars

\* A blank command was recorded over a file that holds a list of three.
C21_Witness ==
    /\ op = "record"
    /\ recorded.command = sBlank
    /\ recorded.trimmed = <<>>
    /\ ~recorded.saved
    /\ recentFile.kind = "list"
    /\ Len(recentFile.commands) = MaxPersisted

----------------------------------------------------------------------------
(* The pipeline: merge, then limit, then format *)

MaxBatch == 2

\* "git status" and "ls"
sGitStatus == <<103, 105, 116, 32, 115, 116, 97, 116, 117, 115>>
sLs        == <<108, 115>>

PipelineRecords ==
    {[command |-> c, source |-> s] :
        c \in {sGitStatus, sLs}, s \in {"curated", "history"}}

\* Two batch files of at most MaxBatch records each.
PipelineInputs ==
    {<<File("batch", b1), File("batch", b2)>> :
        b1 \in SeqsUpTo(PipelineRecords, MaxBatch),
        b2 \in SeqsUpTo(PipelineRecords, MaxBatch)}

\* No limit, or a limit on the curated records.
PipelineLimits == {l \in LimitMappings : DOMAIN l \subseteq {"curated"}}

InitPipeline ==
    /\ op = "init"
    /\ files \in PipelineInputs
    /\ limits \in PipelineLimits
    /\ merged = NoMerge
    /\ commands = <<>> /\ limited = <<>>
    /\ FormatIdle /\ RecentIdle /\ SourceIdle /\ CliIdle /\ HistoryIdle

\* merged_commands = merge_commands([file1, file2])
PipelineMerge ==
    /\ op = "init"
    /\ merged' = merge_commands(files)
    /\ op' = "merged"
    /\ UNCHANGED <<files, limitVars, formatVars, recentVars, sourceVars, cliVars, historyVars>>

\* limited_commands = limit_commands(merged_commands, limits)
PipelineLimit ==
    /\ op = "merged"
    /\ ~merged.raised
    /\ commands' = merged.result
    /\ limited' = limit_commands(merged.result, limits)
    /\ op' = "limited"
    /\ UNCHANGED <<limits, mergeVars, formatVars, recentVars, sourceVars, cliVars, historyVars>>

\* formatted_lines = format_commands(limited_commands), with the recency
\* list when the caller has one
PipelineFormat ==
    /\ op = "limited"
    /\ fmtCommands' = limited
    /\ sortedCommands' = sorted_by_key(sortByRecent, <<>>, limited)
    /\ formatted' = format_commands(limited, sortByRecent)
    /\ op' = "formatted"
    /\ UNCHANGED <<sortByRecent, mergeVars, limitVars, recentVars, sourceVars, cliVars, historyVars>>

Next == PipelineMerge \/ PipelineLimit \/ PipelineFormat

Spec == InitPipeline /\ [][Next]_vars

----------------------------------------------------------------------------
(* Claims about the pipeline, checked under Spec *)

GitStatusCurated == [command |-> sGitStatus, source |-> "curated"]

\* batch1 = [git status/curated], batch2 = [git status/history, ls/curated],
\* limits = {curated: 1}
Scenario ==
    /\ files = <<File("batch", <<GitStatusCurated>>),
                 File("batch", <<[command |-> sGitStatus, source |-> "history"],
                                 [command |-> sLs, source |-> "curated"]>>)>>
    /\ limits = [s \in {"curated"} |-> 1]

\* C19: in the scenario Merge yields 2 records, "git status" with source
\* curated among them; Limit then keeps exactly one record, "git status"
\* (the first in merge-insertion order); Format then yields exactly 1 line.
C19_EndToEnd ==
    Scenario =>
        /\ op \in {"merged", "limited", "formatted"} =>
               /\ ~merged.raised
               /\ Len(merged.result) = 2
               /\ \E i \in 1..2 : /\ Trimmed(merged.result[i]) = sGitStatus
                                   /\ SourceKind(merged.result[i]) = "curated"
               /\ \A i \in 1..2 : Trimmed(merged.result[i]) = sGitStatus
                                       => SourceKind(merged.result[i]) = "curated"
        /\ op \in {"limited", "formatted"} => limited = <<GitStatusCurated>>
        /\ op = "formatted" => Len(formatted) = 1

\* The scenario has run through all three stages.
C19_Witness ==
    /\ Scenario
    /\ op = "formatted"
    /\ commands = merged.result
    /\ Len(commands) = 2
    /\ fmtCommands = limited
    /\ Len(formatted) = 1

----------------------------------------------------------------------------
(* The pipeline on any batches, limits and recency list *)

\* Records of two commands from sources of different priority, with and
\* without a description; the descriptions hold a tab.
AnyRecords ==
    {[command |-> sGitStatus, source |-> "curated"],
     [command |-> sLs, source |-> "history"],
     [command |-> sGitStatus, source |-> "history", description |-> sDTabE],
     [command |-> sLs, source |-> "curated", description |-> sDTabE]}

AnyInputs ==
    {<<File("batch", b1), File("batch", b2)>> :
        b1 \in SeqsUpTo(AnyRecords, MaxBatch),
        b2 \in SeqsUpTo(AnyRecords, MaxBatch)}

AnyRecency == {<<>>, <<sLs>>, <<sLs, sGitStatus>>}

InitPipelineAny ==
    /\ op = "init"
    /\ files \in AnyInputs
    /\ limits \in LimitMappings
    /\ sortByRecent \in AnyRecency
    /\ merged = NoMerge
    /\ commands = <<>> /\ limited = <<>>
    /\ fmtCommands = <<>> /\ sortedCommands = <<>> /\ formatted = <<>>
    /\ RecentIdle /\ SourceIdle /\ CliIdle /\ HistoryIdle

NextPipelineAny == PipelineMerge \/ PipelineLimit \/ PipelineFormat

SpecPipelineAny == InitPipelineAny /\ [][NextPipelineAny]_vars

\* C30: for any input batches, any limits mapping and any recency list, the
\* lines Merge, Limit and Format produce have pairwise distinct command
\* fields (field 2), and there are at most as many lines as distinct
\* non-empty trimmed commands in the input batches.
C30_PipelineNoDuplicates ==
    op = "formatted" =>
        /\ \A i, j \in 1..Len(formatted) :
               i # j => FieldsOf(i)[2] # FieldsOf(j)[2]
        /\ Len(formatted)
               <= Cardinality({Trimmed(InputRecords[n]) : n \in 1..Len(InputRecords)}
                                  \ {<<>>})

----------------------------------------------------------------------------
(* source_commands_yaml and source_tldr *)

\* A value of the loaded YAML is a string [kind "str", text], a number
\* [kind "int", number] or a mapping [kind "dict", fields].

RECURSIVE decimal(_)
decimal(n) ==
    IF n < 10 THEN <<48 + n>> ELSE decimal(n \div 10) \o <<48 + (n % 10)>>

\* str(ex) of a value that is not a mapping
str(ex) == IF ex.kind = "str" THEN ex.text ELSE decimal(ex.number)

\* ex.get("command", "") if isinstance(ex, dict) else str(ex)
example_of(ex) ==
    IF ex.kind = "dict" THEN Get(ex.fields, "command", <<>>) ELSE str(ex)

\* The body of "for entry in data.get("commands", [])": the record appended
\* for the entry, if any.
parse_entry(entry, source) ==
    IF entry.kind # "dict" THEN <<>>
    ELSE LET \* command_str = entry.get("command", "").strip()
             entry_command == strip(Get(entry.fields, "command", <<>>))
             examples    == Get(entry.fields, "examples", <<>>)
         IN  IF entry_command = <<>> THEN <<>>
             ELSE <<[command     |-> entry_command,
                     description |-> strip(Get(entry.fields, "description", <<>>)),
                     tags        |-> Get(entry.fields, "tags", <<>>),
                     examples    |-> [k \in 1..Len(examples) |-> example_of(examples[k])],
                     source      |-> source,
                     metadata    |-> <<>>]>>

\* What open() and yaml.safe_load() give.
YamlKinds ==
    {"missing",          \* FileNotFoundError
     "invalid_yaml",     \* yaml.YAMLError
     "not_dict",         \* empty, or the top level is not a mapping
     "no_commands_key",  \* a mapping without "commands"
     "dict"}             \* a mapping whose "commands" is the list of entries

parse_entries(data, source) ==
    IF data.kind # "dict" THEN <<>>
    ELSE Flatten([k \in 1..Len(data.entries) |-> parse_entry(data.entries[k], source)])

parse_commands_yaml(data) == parse_entries(data, "curated")

parse_tldr_yaml(data) == parse_entries(data, "tldr")

----------------------------------------------------------------------------
(* Inputs of the source adapters *)

MaxEntries == 1
MaxExamples == 2

\* "d: e"
sDColonE == <<100, 58, 32, 101>>

YamlStr(text) == [kind |-> "str", text |-> text]
YamlDict(fields) == [kind |-> "dict", fields |-> fields]

\* An example as a plain command, as one "description: command" string, as
\* a structured pair, as a mapping with the command only, as a number.
YamlExamples ==
    {YamlStr(sE),
     YamlStr(sDColonE),
     YamlDict([description |-> sD, command |-> sE]),
     YamlDict([command |-> sE]),
     [kind |-> "int", number |-> 42]}

YamlEntries ==
    {YamlDict([command |-> sA, examples |-> exs]) :
        exs \in SeqsUpTo(YamlExamples, MaxExamples)}
    \cup {YamlDict([command |-> sSpaceA, description |-> sSpaceD, tags |-> <<sX, sY>>]),
          YamlDict([command |-> sBlank, examples |-> <<YamlStr(sE)>>]),
          YamlDict([description |-> sD]),
          YamlStr(sA)}

YamlInputs ==
    {[kind |-> k, entries |-> <<>>] : k \in YamlKinds \ {"dict"}}
    \cup {[kind |-> "dict", entries |-> es] : es \in SeqsUpTo(YamlEntries, MaxEntries)}

InitSource ==
    /\ op = "init"
    /\ yamlData \in YamlInputs
    /\ parsed = <<>>
    /\ MergeIdle /\ LimitIdle /\ FormatIdle /\ RecentIdle /\ CliIdle /\ HistoryIdle

\* source_commands_yaml.py: commands = parse_commands_yaml(yaml_file)
ParseCommandsYaml ==
    /\ op = "init"
    /\ parsed' = parse_commands_yaml(yamlData)
    /\ op' = "commands_yaml"
    /\ UNCHANGED <<yamlData, mergeVars, limitVars, formatVars, recentVars, cliVars, historyVars>>

\* source_tldr.py: commands = parse_tldr_yaml(tldr_file)
ParseTldrYaml ==
    /\ op = "init"
    /\ parsed' = parse_tldr_yaml(yamlData)
    /\ op' = "tldr"
    /\ UNCHANGED <<yamlData, mergeVars, limitVars, formatVars, recentVars, cliVars, historyVars>>

\* The records of one adapter reach format_commands as they are (merging
\* and limiting one batch of distinct commands keeps every record).
FormatParsed ==
    /\ op \in {"commands_yaml", "tldr"}
    /\ fmtCommands' = parsed
    /\ sortedCommands' = sorted_by_key(<<>>, <<>>, parsed)
    /\ formatted' = format_commands(parsed, <<>>)
    /\ op' = "format"
    /\ UNCHANGED <<sortByRecent, sourceVars, mergeVars, limitVars, recentVars, cliVars, historyVars>>

NextSource == ParseCommandsYaml \/ ParseTldrYaml \/ FormatParsed

SpecSource == InitSource /\ [][NextSource]_vars

----------------------------------------------------------------------------
(* Claims about the source adapters, checked under SpecSource *)

\* sub occurs in s.
Contains(s, sub) ==
    \E k \in 0..(Len(s) - Len(sub)) : SubSeq(s, k + 1, k + Len(sub)) = sub

\* The entries a parser keeps: mappings with a command that is not blank.
KeptEntries ==
    LET kept(entry) ==
            /\ entry.kind = "dict"
            /\ "command" \in DOMAIN entry.fields
            /\ strip(entry.fields.command) # <<>>
    IN  SelectSeq(yamlData.entries, kept)

EntryExamples(entry) ==
    IF "examples" \in DOMAIN entry.fields THEN entry.fields.examples ELSE <<>>

\* An example carried by the text: as "description: command" for a
\* structured pair with both parts, as the string itself for a string.
Carries(text, ex) ==
    CASE ex.kind = "str" -> Contains(text, ex.text)
      [] ex.kind = "dict" /\ DOMAIN ex.fields = {"description", "command"} ->
             /\ Contains(text, ex.fields.description)
             /\ Contains(text, ex.fields.command)
      [] OTHER -> TRUE

\* C20: when an example of a record pairs a description with a command, as
\* a structured pair or as one "description: command" string, the examples
\* field of the record's line carries both the description and the command
\* of that example, the examples being joined by " | ".
C20_ExamplePairing ==
    op = "format" =>
        /\ Len(formatted) = Len(KeptEntries)
        /\ \A i \in 1..Len(formatted) :
               LET examples == EntryExamples(KeptEntries[i])
                   field    == FieldsOf(i)[5]
               IN  /\ \A k \in 1..Len(examples) : Carries(field, examples[k])
                   /\ Len(Split(field, 124)) = (IF examples = <<>> THEN 1 ELSE Len(examples))

----------------------------------------------------------------------------
(* The command-line entry points: main() of merge_commands, limit_commands *)
(* and format_for_fzf                                                      *)

\* An exit through sys.exit(1) and one through an uncaught exception both
\* give exit status 1.
Exited(status, read, stdout) == [exit |-> status, read |-> read, stdout |-> stdout]

\* merge_commands.py <file1.json> [file2.json ...]
merge_main(inv) ==
    IF inv.paths = <<>>
    THEN Exited(1, "none", <<>>)
    ELSE LET m == merge_commands(inv.paths)
         IN  IF m.raised
             THEN Exited(1, "file", <<>>)
             ELSE Exited(0, "file", m.result)

\* json.load() and data.get("commands", []) in the main() of limit_commands
\* and format_for_fzf, and what the stage then does with the value: no
\* exception is caught except, in limit_commands, the two that end in
\* sys.exit(1).
main_load(file) ==
    CASE file.kind = "batch"           -> [raised |-> FALSE, commands |-> file.commands]
      [] file.kind = "no_commands_key" -> [raised |-> FALSE, commands |-> <<>>]
      [] OTHER                         -> [raised |-> TRUE, commands |-> <<>>]

\* limit_commands.py <input.json> [--limit source:count ...]
limit_main(inv) ==
    IF inv.paths = <<>>
    THEN Exited(1, "none", <<>>)
    ELSE LET loaded == main_load(inv.paths[1])
         IN  IF loaded.raised
             THEN Exited(1, "file", <<>>)
             ELSE Exited(0, "file", limit_commands(loaded.commands, inv.limits))

\* The second argument of format_for_fzf.py: recent_commands, [] standing
\* for None.
recent_commands_of(recent) ==
    CASE recent.kind = "strings" -> recent.commands
      [] recent.kind = "dicts"   ->
             [k \in 1..Len(recent.records) |-> Get(recent.records[k], "command", <<>>)]
      [] OTHER                   -> <<>>

\* formatted[:50]
SampleLines == 50

first_sample(lines) ==
    SubSeq(lines, 1, IF Len(lines) < SampleLines THEN Len(lines) ELSE SampleLines)

\* format_for_fzf.py [input.json [recent.json]]: the process and the file
\* /Users/rioredwards/.dotfiles/zsh/fz-cmd/formatted_sample.txt afterwards.
format_main(inv, sample) ==
    LET from_file == inv.paths # <<>>
        read      == IF from_file THEN "file" ELSE "stdin"
        loaded    == main_load(IF from_file THEN inv.paths[1] ELSE inv.stdin)
        recent    == IF Len(inv.paths) > 1 THEN recent_commands_of(inv.recent) ELSE <<>>
        lines     == format_commands(loaded.commands, recent)
    IN  IF loaded.raised
        THEN [process |-> Exited(1, read, <<>>), sample |-> sample]
        ELSE IF sample.kind = "no_dir"
        THEN [process |-> Exited(1, read, lines), sample |-> sample]
        ELSE [process |-> Exited(0, read, lines),
              sample  |-> [kind |-> "written", lines |-> first_sample(lines)]]

----------------------------------------------------------------------------
(* Inputs of the command-line entry points *)

MaxPaths == 2

CliBatch ==
    <<[command |-> sB, source |-> "history"],
      [command |-> sA, source |-> "curated", description |-> sD]>>

\* What a path argument, or standard input, may hold.
CliFiles ==
    {File(k, <<>>) : k \in FileKinds \ {"batch"}}
    \cup {File("batch", <<>>), File("batch", CliBatch)}

CliStdin == {f \in CliFiles : f.kind \notin {"missing", "unreadable"}}

CliRecent ==
    {[kind |-> "unusable"],
     [kind |-> "strings", commands |-> <<sA>>],
     [kind |-> "dicts", records |-> <<[command |-> sA]>>]}

Invocation(tool, paths, stdin, lims, recent) ==
    [tool |-> tool, paths |-> paths, stdin |-> stdin, limits |-> lims, recent |-> recent]

NoRecent == [kind |-> "unusable"]

CliInvocations ==
    {Invocation("merge", ps, f, <<>>, NoRecent) :
        ps \in SeqsUpTo(CliFiles, MaxPaths), f \in CliStdin}
    \cup {Invocation("limit", ps, f, l, NoRecent) :
              ps \in SeqsUpTo(CliFiles, 1), f \in CliStdin,
              l \in {<<>>, [s \in {"curated"} |-> 0]}}
    \cup {Invocation("format", ps, f, <<>>, r) :
              ps \in SeqsUpTo(CliFiles, 1), f \in CliStdin, r \in {NoRecent}}
    \cup {Invocation("format", <<p, File("batch", <<>>)>>, File("batch", <<>>), <<>>, r) :
              p \in CliFiles, r \in CliRecent}

\* The sample file before the run: its directory does not exist (any
\* machine but the author's), or it does and the file is not there yet.
SampleFiles == {[kind |-> "no_dir", lines |-> <<>>], NoSample}

InitCli ==
    /\ op = "init"
    /\ invocation \in CliInvocations
    /\ process = NoProcess
    /\ sampleFile \in SampleFiles
    /\ MergeIdle /\ LimitIdle /\ FormatIdle /\ RecentIdle /\ SourceIdle /\ HistoryIdle

MergeMain ==
    /\ op = "init"
    /\ invocation.tool = "merge"
    /\ process' = merge_main(invocation)
    /\ op' = "merge_main"
    /\ UNCHANGED <<invocation, sampleFile, mergeVars, limitVars, formatVars,
                   recentVars, sourceVars, historyVars>>

LimitMain ==
    /\ op = "init"
    /\ invocation.tool = "limit"
    /\ process' = limit_main(invocation)
    /\ op' = "limit_main"
    /\ UNCHANGED <<invocation, sampleFile, mergeVars, limitVars, formatVars,
                   recentVars, sourceVars, historyVars>>

FormatMain ==
    /\ op = "init"
    /\ invocation.tool = "format"
    /\ process' = format_main(invocation, sampleFile).process
    /\ sampleFile' = format_main(invocation, sampleFile).sample
    /\ op' = "format_main"
    /\ UNCHANGED <<invocation, mergeVars, limitVars, formatVars, recentVars, sourceVars, historyVars>>

NextCli == MergeMain \/ LimitMain \/ FormatMain

SpecCli == InitCli /\ [][NextCli]_vars

----------------------------------------------------------------------------
(* Claims about the command-line entry points, checked under SpecCli *)

MainRan == op \in {"merge_main", "limit_main", "format_main"}

\* C22: running a stage, also through its command-line entry point, leaves
\* its input unchanged and touches no file or other state beside its
\* declared input and its output: neither the recency file nor any other
\* file is written.
C22_StagePurity ==
    [][(op' \in {"merge_main", "limit_main", "format_main"}) =>
           /\ invocation' = invocation
           /\ recentFile' = recentFile
           /\ sampleFile' = sampleFile]_vars

\* The input a run needs: its first path argument, standard input without one.
RequiredInput ==
    IF invocation.paths # <<>> THEN invocation.paths[1] ELSE invocation.stdin

\* C23: each of the three utilities reads its input from the path argument
\* when one is given and from standard input when it is omitted, and exits
\* non-zero when that input cannot be read or parsed.
C23_CliInputSource ==
    MainRan =>
        /\ invocation.paths # <<>> => process.read = "file"
        /\ invocation.paths = <<>> => process.read = "stdin"
        /\ RequiredInput.kind \in {"unreadable", "invalid_json"} => process.exit # 0

----------------------------------------------------------------------------
(* source_history *)

NOISE_COMMANDS ==
    {<<108, 115>>,   \* ls
     <<99, 100>>,   \* cd
     <<112, 119, 100>>,   \* pwd
     <<99, 108, 101, 97, 114>>,   \* clear
     <<101, 120, 105, 116>>,   \* exit
     <<104, 105, 115, 116, 111, 114, 121>>,   \* history
     <<46, 46>>,   \* ..
     <<46, 46, 46>>,   \* ...
     <<46, 46, 46, 46>>,   \* ....
     <<108, 108>>,   \* ll
     <<108, 97>>,   \* la
     <<108>>,   \* l
     <<99, 97, 116>>,   \* cat
     <<108, 101, 115, 115>>,   \* less
     <<109, 111, 114, 101>>,   \* more
     <<104, 101, 97, 100>>,   \* head
     <<116, 97, 105, 108>>}   \* tail

IsDigit(c) == c \in 48..57

\* str.isalnum() on text of letters, digits and punctuation
isalnum(t) ==
    /\ t # <<>>
    /\ \A k \in 1..Len(t) : IsDigit(t[k]) \/ t[k] \in 65..90 \/ t[k] \in 97..122

\* The place after the digits that start at place k.
RECURSIVE DigitsEnd(_, _)
DigitsEnd(line, k) ==
    IF k <= Len(line) /\ IsDigit(line[k]) THEN DigitsEnd(line, k + 1) ELSE k

\* re.compile(r"^: (\d+):(\d+);(.*)$").match(line): whether it matches, and
\* group 3.
extended_pattern(line) ==
    LET a == DigitsEnd(line, 3)
        b == DigitsEnd(line, a + 1)
    IN  IF /\ Len(line) >= 2 /\ line[1] = 58 /\ line[2] = 32
           /\ a > 3 /\ a <= Len(line) /\ line[a] = 58
           /\ b > a + 1 /\ b <= Len(line) /\ line[b] = 59
        THEN [matched |-> TRUE, group3 |-> SubSeq(line, b + 1, Len(line))]
        ELSE [matched |-> FALSE, group3 |-> <<>>]

\* _clean_command(cmd): the cleaned command, the empty text standing for None.
clean_command(cmd) ==
    LET filled(l)   == l # <<>>
        parts       == Split(strip(cmd), 10)
        lines       == SelectSeq([k \in 1..Len(parts) |-> strip(parts[k])], filled)
        joined      == Join(<<59, 32>>, lines)
    IN  IF cmd = <<>> \/ lines = <<>> THEN <<>>
        ELSE IF Len(lines) = 1
        THEN LET line == lines[1]
             IN  IF line = <<92>> \/ (Len(line) <= 2 /\ ~isalnum(line)) THEN <<>>
                 ELSE IF /\ Len(line) >= 2 /\ line[1] = 45 /\ line[2] = 45
                         /\ 32 \notin Range(line)
                 THEN <<>>
                 ELSE line
        ELSE IF Len(joined) > 200 THEN lines[1] ELSE joined

\* commands.append(cleaned) if cleaned
append_cleaned(cmds, cmd) ==
    IF clean_command(cmd) # <<>> THEN Append(cmds, clean_command(cmd)) ELSE cmds

NoCurrent == [some |-> FALSE, text |-> <<>>]

\* "for line in lines" and the last command after it; current is
\* current_cmd, NoCurrent standing for None.
RECURSIVE history_loop(_, _, _)
history_loop(lines, cmds, current) ==
    IF lines = <<>>
    THEN IF current.some THEN append_cleaned(cmds, current.text) ELSE cmds
    ELSE LET line == Head(lines)
             rest == Tail(lines)
             m    == extended_pattern(line)
         IN  IF line = <<>> THEN history_loop(rest, cmds, current)
             ELSE IF m.matched
             THEN history_loop(rest,
                               IF current.some
                               THEN append_cleaned(cmds, current.text)
                               ELSE cmds,
                               [some |-> TRUE, text |-> m.group3])
             ELSE IF current.some
             THEN history_loop(rest, cmds,
                               [some |-> TRUE, text |-> current.text \o <<10>> \o line])
             ELSE history_loop(rest,
                               IF line[1] # 58 THEN append_cleaned(cmds, line)
                               ELSE cmds,
                               current)

\* commands[-max_entries:], a Python slice: -0 is 0 and keeps everything, a
\* negative max_entries drops that many from the front.
last_entries(cmds, max_entries) ==
    LET n     == Len(cmds)
        start == IF max_entries > 0
                 THEN (IF n > max_entries THEN n - max_entries ELSE 0)
                 ELSE (IF -max_entries < n THEN -max_entries ELSE n)
    IN  SubSeq(cmds, start + 1, n)

\* get_history_entries(max_entries) on the history file
get_history_entries(file, max_entries) ==
    IF file.kind \in {"absent", "unreadable"} THEN <<>>
    ELSE last_entries(history_loop(Split(file.text, 10), <<>>, NoCurrent), max_entries)

\* cmd.split()[0] if cmd.split() else ""
first_word(cmd) ==
    LET t == lstrip(cmd)
        stop == IF \E k \in 1..Len(t) : t[k] \in Whitespace
                THEN (CHOOSE k \in 1..Len(t) :
                          t[k] \in Whitespace /\ \A j \in 1..(k - 1) : t[j] \notin Whitespace) - 1
                ELSE Len(t)
    IN  SubSeq(t, 1, stop)

filter_noise(cmds) ==
    LET kept(cmd) == first_word(cmd) # <<>> /\ first_word(cmd) \notin NOISE_COMMANDS
    IN  SelectSeq(cmds, kept)

RECURSIVE deduplicate_from(_, _)
deduplicate_from(unique, cmds) ==
    IF cmds = <<>> THEN unique
    ELSE deduplicate_from(IF Head(cmds) \in Range(unique)
                          THEN unique
                          ELSE Append(unique, Head(cmds)),
                          Tail(cmds))

deduplicate(cmds) == deduplicate_from(<<>>, cmds)

\* "History: "
sHistoryColon == <<72, 105, 115, 116, 111, 114, 121, 58, 32>>

\* cmd_str[:50]
DescriptionChars == 50

process_history(file, max_entries) ==
    LET unique == deduplicate(filter_noise(get_history_entries(file, max_entries)))
    IN  [k \in 1..Len(unique) |->
            [command     |-> unique[k],
             description |-> sHistoryColon \o
                             SubSeq(unique[k], 1,
                                    IF Len(unique[k]) < DescriptionChars
                                    THEN Len(unique[k]) ELSE DescriptionChars),
             tags        |-> <<>>,
             examples    |-> <<unique[k]>>,
             source      |-> "history",
             metadata    |-> <<>>]]

----------------------------------------------------------------------------
(* Inputs of the history adapter *)

MaxHistoryLines == 3
MaxRequested == 2

\* Lines of a zsh history file: extended-format entries, a plain line, an
\* orphan line starting with a colon, a fragment, an empty line.
HistoryLines ==
    {<<58, 32, 49, 58, 48, 59, 97, 98>>,       \* ": 1:0;ab"
     <<58, 32, 50, 58, 48, 59, 99, 100, 32, 120>>,   \* ": 2:0;cd x"
     <<58, 32, 51, 58, 48, 59, 108, 115>>,      \* ": 3:0;ls"
     <<101, 102>>,       \* "ef"
     <<58, 120>>,        \* ":x"
     <<45>>,             \* "-"
     <<>>}

\* The text of a file whose lines each end in a newline.
FileText(lines) == Flatten([k \in 1..Len(lines) |-> lines[k] \o <<10>>])

HistoryFiles ==
    {[kind |-> k, text |-> <<>>] : k \in {"absent", "unreadable"}}
    \cup {[kind |-> "text", text |-> FileText(ls)] :
              ls \in SeqsUpTo(HistoryLines, MaxHistoryLines)}

InitHistory ==
    /\ op = "init"
    /\ histFile \in HistoryFiles
    /\ maxEntries \in -1..MaxRequested
    /\ historyEntries = <<>>
    /\ processed = <<>>
    /\ MergeIdle /\ LimitIdle /\ FormatIdle /\ RecentIdle /\ SourceIdle /\ CliIdle

\* raw_commands = get_history_entries(max_entries)
GetHistoryEntries ==
    /\ op = "init"
    /\ historyEntries' = get_history_entries(histFile, maxEntries)
    /\ op' = "history_entries"
    /\ UNCHANGED <<histFile, maxEntries, processed, mergeVars, limitVars, formatVars,
                   recentVars, sourceVars, cliVars>>

\* source_history.py [max_entries]: commands = process_history(max_entries)
ProcessHistory ==
    /\ op = "init"
    /\ historyEntries' = get_history_entries(histFile, maxEntries)
    /\ processed' = process_history(histFile, maxEntries)
    /\ op' = "process_history"
    /\ UNCHANGED <<histFile, maxEntries, mergeVars, limitVars, formatVars,
                   recentVars, sourceVars, cliVars>>

NextHistory == GetHistoryEntries \/ ProcessHistory

SpecHistory == InitHistory /\ [][NextHistory]_vars

----------------------------------------------------------------------------
(* Claims about the history adapter, checked under SpecHistory *)

\* The commands of the history file, oldest first, as the adapter reads them.
FileCommands ==
    IF histFile.kind = "text"
    THEN history_loop(Split(histFile.text, 10), <<>>, NoCurrent)
    ELSE <<>>

Reverse(q) == [k \in 1..Len(q) |-> q[Len(q) + 1 - k]]

\* C24: get_history_entries(max_entries) returns at most max_entries
\* commands, those at the end of the history file, most recent first: the
\* last command of the file is the first element of the result.  (Stated
\* for max_entries > 0.)
C24_HistoryOrder ==
    (op \in {"history_entries", "process_history"} /\ maxEntries > 0) =>
        LET n    == Len(FileCommands)
            kept == Min(maxEntries, n)
        IN  /\ Len(historyEntries) <= maxEntries
            /\ historyEntries = Reverse(SubSeq(FileCommands, n - kept + 1, n))

----------------------------------------------------------------------------
(* The recency tracker from an absent or empty file *)

MaxCalls == 2

\* What a run records next: any of a few commands for its first MaxCalls
\* saved records, then MAX_RECENT commands not recorded before, then one
\* more, old or new; after that it records nothing.
NextCommands ==
    IF Len(recordLog) < MaxCalls
    THEN {sA, sB, sASpace, sBlank, <<>>}
    ELSE IF Len(recordLog) < MaxCalls + MAX_RECENT
    THEN {Entry(Len(recordLog) - MaxCalls + 1)}
    ELSE IF Len(recordLog) = MaxCalls + MAX_RECENT
    THEN {sA, sB, Entry(1), Entry(MAX_RECENT)}
    ELSE {}

InitFresh ==
    /\ op = "init"
    /\ recentFile \in {AbsentFile,
                       [kind |-> "corrupt", commands |-> <<>>],   \* zero bytes
                       [kind |-> "list", commands |-> <<>>]}
    /\ recorded = NoRecorded
    /\ listed = NoListed
    /\ recordLog = <<>>
    /\ MergeIdle /\ LimitIdle /\ FormatIdle /\ SourceIdle /\ CliIdle /\ HistoryIdle

\* recent_tracker.py record <command>; recordLog grows with a saved record
\* and starts again when a failed write leaves the file without a list.
FreshRecord ==
    \E command \in NextCommands, outcome \in SaveOutcomes :
        LET r == record_usage(recentFile, command, outcome)
        IN  /\ recentFile' = r.file
            /\ recorded' = r.call
            /\ listed' = NoListed
            /\ recordLog' = IF r.call.saved THEN Append(recordLog, r.call.trimmed)
                            ELSE IF r.file # recentFile THEN <<>>
                            ELSE recordLog
            /\ op' = "record"
            /\ UNCHANGED <<mergeVars, limitVars, formatVars, sourceVars, cliVars,
                           historyVars>>

\* recent_tracker.py list
FreshList ==
    /\ listed' = load_recent(recentFile)
    /\ recorded' = NoRecorded
    /\ op' = "list"
    /\ UNCHANGED <<recentFile, recordLog, mergeVars, limitVars, formatVars, sourceVars,
                   cliVars, historyVars>>

\* recent_tracker.py clear
FreshClear ==
    \E outcome \in SaveOutcomes :
        /\ recentFile' = save_recent(recentFile, <<>>, outcome)
        /\ recordLog' = IF outcome = "open_failed" THEN recordLog ELSE <<>>
        /\ recorded' = NoRecorded
        /\ listed' = NoListed
        /\ op' = "clear"
        /\ UNCHANGED <<mergeVars, limitVars, formatVars, sourceVars, cliVars,
                       historyVars>>

NextFresh == FreshRecord \/ FreshList \/ FreshClear

SpecFresh == InitFresh /\ [][NextFresh]_vars

----------------------------------------------------------------------------
(* Claims about the recency tracker from an empty list, checked under      *)
(* SpecFresh                                                               *)

\* The list a file persists: none when it holds no readable list.
ListOf(file) == IF file.kind = "list" THEN file.commands ELSE <<>>

\* C25: starting from an absent or empty recency file, after any sequence
\* of record and clear operations the persisted list holds no entry twice,
\* has at most 100 entries, and every entry is a non-empty string without
\* leading or trailing whitespace.
C25_RecencyInvariant ==
    LET list == ListOf(recentFile)
    IN  /\ NoDuplicates(list)
        /\ Len(list) <= 100
        /\ \A k \in 1..Len(list) : list[k] # <<>> /\ strip(list[k]) = list[k]

\* A full list of 100 entries, reached by records among which one was given
\* with surrounding whitespace and one repeated an earlier command.
C25_Witness ==
    /\ op = "record"
    /\ recorded.saved
    /\ Len(ListOf(recentFile)) = 100
    /\ \E k \in 1..MaxCalls : \E j \in 1..(k - 1) : recordLog[j] = recordLog[k]
    /\ Len(recordLog) > MaxCalls + MAX_RECENT

\* The distinct commands of a log, the one recorded last first.
RECURSIVE ByLastUse(_)
ByLastUse(log) ==
    IF log = <<>> THEN <<>>
    ELSE LET last == log[Len(log)]
             IsOther(c) == c # last
         IN  <<last>> \o ByLastUse(SelectSeq(SubSeq(log, 1, Len(log) - 1), IsOther))

\* The 100 most recent of them.
MostRecent(log) ==
    LET all == ByLastUse(log)
    IN  SubSeq(all, 1, Min(Len(all), 100))

\* A saved record puts its command first, keeps the other entries in the
\* order they had, and drops at most the last of them, only from a full list.
RecordStep ==
    (op' = "record" /\ recorded'.saved) =>
        LET old    == ListOf(recentFile)
            new    == ListOf(recentFile')
            IsOther(c) == c # recorded'.trimmed
            others == SelectSeq(old, IsOther)
        IN  /\ new # <<>>
            /\ new[1] = recorded'.trimmed
            /\ Tail(new) = SubSeq(others, 1, Len(new) - 1)
            /\ Len(others) - Len(Tail(new)) <= 1
            /\ Len(Tail(new)) < Len(others) => Len(others) = 100

\* C26: starting from an empty list, after any sequence of successful
\* record calls the persisted list is exactly the distinct recorded
\* (trimmed) commands ordered by their latest record call, most recent
\* first, cut to the 100 most recent; a record call never changes the
\* relative order of the other entries and, when the list overflows, evicts
\* only the least recently recorded entry.
C26_LastUseOrder ==
    /\ [](ListOf(recentFile) = MostRecent(recordLog))
    /\ [][RecordStep]_vars

\* The list overflowed: 100 entries remain of more than 100 distinct
\* commands recorded, and an early command recorded again has moved first.
C26_Witness ==
    /\ op = "record"
    /\ recorded.saved
    /\ Len(ListOf(recentFile)) = 100
    /\ Len(ByLastUse(recordLog)) > 100
    /\ recorded.trimmed = Entry(1)

============================================================================
